---- MODULE Spec2Model ----
(***************************************************************************)
(* Model of the PGN -> EPD backend: the control plane of                   *)
(* src/backend/server.py (start / pause / resume / stop, the shared        *)
(* pause_event, stop_event and stop_save_flag, the progress queue) and the *)
(* pipeline of src/backend/processor.py (run_processing, worker_process,   *)
(* _merge_files, _cleanup_temp_files).                                     *)
(*                                                                         *)
(* Abstractions:                                                           *)
(*  - the text of an output line (board.epd(id=...) of the final position) *)
(*    is an integer token; the order of tokens is the order of the texts;  *)
(*  - a byte offset is the index of the record in the input file;          *)
(*  - the random names tempfile gives the temp files are distinct ranks;   *)
(*    sorted() of the paths is the order of the ranks;                     *)
(*  - the progress history and the queue hold the emitted events up to     *)
(*    repetition: a non-terminal event equal to the one before it (the     *)
(*    next poll of the monitoring loop with nothing changed) is not        *)
(*    recorded twice.                                                      *)
(***************************************************************************)
EXTENDS Integers, Sequences, FiniteSets, TLC

\* ------------------------------------------------------------------ bounds
\* Largest number of records of an input file.
MaxGames == 3
\* Games per worker task: processor.py:178 sets 2500; scaled down so that an
\* input of MaxGames records is split into several chunks.
chunk_size_games == 2
\* Accepted start() calls of a behaviour over the small inputs (a behaviour over
\* all inputs has one), and pause / resume / stop calls of one behaviour.
MaxRuns == 2
MaxCalls == 2
\* Largest byte offset of a record in the offset lists given to the planners.
MaxOffset == 5
\* Largest number of plies of a game, and of --min-ply and --max-ply, where the
\* ply window is examined.
MaxPly == 3

VARIABLES
    \* server.py module state (lines 58-62, 96)
    pause_event, stop_event, stop_save_flag, progress_queue,
    background_process,
    \* the /stop handler between its two writes (lines 175-182)
    handler,
    \* file system: the input file named by the settings, the output file
    input_fs, output_file,
    \* run_processing: settings and locals
    settings, pc, temp_dir, game_offsets, chunks, task, tmp, temp_files,
    final_message,
    \* bookkeeping of the behaviour (not program state)
    scenario, request, events, procs, runs, calls, run_stops, mid_stops,
    output_at_start, stale_at_start, merge_fault, paused_seen,
    \* the standalone script src/epdpgnPython.py: the locals of main(), and the
    \* files of its working directory
    main, disk

server_vars == <<pause_event, stop_event, stop_save_flag, progress_queue,
                 background_process, handler>>
fs_vars     == <<input_fs, output_file>>
run_vars    == <<settings, pc, temp_dir, game_offsets, chunks, task, tmp,
                 temp_files, final_message>>
hist_vars   == <<scenario, main, disk, request, events, procs, runs, calls, run_stops, mid_stops,
                 output_at_start, stale_at_start, merge_fault, paused_seen>>
vars == <<server_vars, fs_vars, run_vars, hist_vars>>
\* what the background process and its workers never write
ctl_vars  == <<pause_event, stop_event, stop_save_flag, background_process, handler>>
book_vars == <<scenario, main, disk, request, procs, runs, calls, run_stops, mid_stops,
               output_at_start, stale_at_start>>

\* ------------------------------------------------------------------ inputs
\* A record of the input file: the headers the worker reads, the ply of its
\* final position, and the token of the line the worker would write for it.
\* A negative Elo stands for a header int() cannot parse.
StrongGame == [white_elo |-> 3, black_elo |-> 3, ply |-> 2, eco |-> <<"C">>, line |-> 2]
WeakGame   == [white_elo |-> 1, black_elo |-> 1, ply |-> 2, eco |-> <<"A">>, line |-> 1]

\* The input files: a strong game, a weak game, a strong game, ... The first
\* chunk of the longest holds two different lines, the later line first in
\* order of text; the second chunk repeats a line of the first.
InputFile(n) == [ i \in 1..n |-> IF i % 2 = 1 THEN StrongGame ELSE WeakGame ]

InputStates ==
    { [status |-> "missing", games |-> <<>>], [status |-> "unreadable", games |-> <<>>] }
    \cup { [status |-> "ok", games |-> InputFile(n)] : n \in 0..MaxGames }

\* The body of a /start request. The client also sends min_ply (test_client.py:14);
\* ProcessingSettings (server.py:45-51) has no such field.
\* Two bodies for each number of workers: one that filters nothing, one that asks
\* for rated games and for a ply range that is empty.
Requests ==
    { [min_elo |-> 0, max_ply |-> 3, min_ply |-> 1, eco_prefix |-> <<>>, workers |-> w]
        : w \in {0, 1, 2} }
    \cup
    { [min_elo |-> 2, max_ply |-> 3, min_ply |-> 5, eco_prefix |-> <<>>, workers |-> w]
        : w \in {0, 1, 2} }

\* What the behaviours start from: one run over every request and input, or up
\* to MaxRuns runs over the requests for one worker and the inputs of at most
\* one record.
Scenarios == {"one_run", "several_runs"}

ScenarioRuns(sc) == IF sc = "one_run" THEN 1 ELSE MaxRuns

ScenarioInputs(sc) ==
    IF sc = "one_run"
    THEN Requests \X InputStates
    ELSE { r \in Requests : r.workers = 1 /\ r.min_elo = 0 }
         \X { f \in InputStates : Len(f.games) <= 1 /\ f.status # "unreadable" }

NoFile == [exists |-> FALSE, name |-> 0, lines |-> <<>>]
NoOutput == [exists |-> FALSE, lines |-> <<>>]

\* ------------------------------------------------------------- pure helpers
Min(a, b) == IF a <= b THEN a ELSE b

RECURSIVE SortedSeq(_)
\* sorted(S) for a set of integers
SortedSeq(S) ==
    IF S = {} THEN <<>>
    ELSE LET m == CHOOSE x \in S : \A y \in S : x <= y
         IN  <<m>> \o SortedSeq(S \ {m})

Range(s) == { s[i] : i \in 1..Len(s) }

StartsWith(s, p) == Len(p) <= Len(s) /\ SubSeq(s, 1, Len(p)) = p


\* ------------------------------------------------------- processor.py, pure
\* A planner that gives every chunk, the last one too, chunk_size_games games.
Planner_FullLast(offsets) ==
    LET n == Len(offsets)
        k == (n + chunk_size_games - 1) \div chunk_size_games
    IN  [ c \in 1..k |->
            [ id        |-> c - 1,
              offset    |-> offsets[(c - 1) * chunk_size_games + 1],
              num_games |-> chunk_size_games ] ]

\* run_processing, lines 178-182: the chunks of an ordered offset list.
Planner(offsets) ==
    LET n == Len(offsets)
        k == (n + chunk_size_games - 1) \div chunk_size_games
    IN  [ c \in 1..k |->
            [ id        |-> c - 1,
              offset    |-> offsets[(c - 1) * chunk_size_games + 1],
              num_games |-> Min(chunk_size_games, n - (c - 1) * chunk_size_games) ] ]

\* worker_process, lines 87-99: what one decoded game adds to the temp file.
\* int() of an unparsable header raises ValueError and the game is skipped.
WorkerLines(game, s) ==
    IF game.white_elo < 0 \/ game.black_elo < 0 THEN <<>>
    ELSE IF /\ (game.white_elo >= s.min_elo \/ game.black_elo >= s.min_elo)
            /\ game.ply <= s.max_ply
            /\ StartsWith(game.eco, s.eco_prefix)
         THEN << game.line >>
         ELSE <<>>

\* AsyncResult.ready(), .successful() and .get() of a task. A task ends "ok" (it
\* returned its temp file path), "none" (it returned None at a stop check),
\* or "failed" (it raised); "killed" is a task the pool terminated.
Ready(t)      == t.state \in {"ok", "none", "failed"}
Successful(t) == t.state \in {"ok", "none"}

\* The path a task returned: the name of its temp file, 0 for None.
ResultOf(c) == IF task[c].state = "ok" THEN tmp[c].name ELSE 0

\* os.path.exists(f) for a temp file name
Exists(name) == \E c \in DOMAIN tmp : tmp[c].exists /\ tmp[c].name = name
LinesOf(name) == tmp[CHOOSE c \in DOMAIN tmp : tmp[c].exists /\ tmp[c].name = name].lines

\* A merge that copies the first temp file only.
Concat_FirstOnly(names) ==
    IF names = <<>> THEN <<>> ELSE LinesOf(Head(names))

RECURSIVE Concat(_)
\* the bytes written by the loop of _merge_files, lines 127-130
Concat(names) ==
    IF names = <<>> THEN <<>> ELSE LinesOf(Head(names)) \o Concat(Tail(names))

\* _merge_files, line 117
ValidTempFiles(files) == { f \in Range(files) : f # 0 /\ Exists(f) }

\* _cleanup_temp_files, lines 104-113: tmp with the named files removed
Cleanup(names) ==
    [ c \in DOMAIN tmp |-> IF tmp[c].exists /\ tmp[c].name \in names THEN NoFile ELSE tmp[c] ]

\* ------------------------------------------------------------- progress
Event(st, pr, msg, term) ==
    [status |-> st, progress |-> pr, message |-> msg, is_complete |-> term]

\* A progress value of -1 stands for an event without a "progress" key.
Put(q, e) ==
    IF q # <<>> /\ q[Len(q)] = e /\ ~e.is_complete THEN q ELSE Append(q, e)

\* progress_callback_wrapper, server.py:140-142
Emit(e) ==
    /\ progress_queue' = Put(progress_queue, e)
    /\ events' = Put(events, e)

\* ------------------------------------------------------------------ Init
NoSettings == [min_elo |-> 0, max_ply |-> 0, eco_prefix |-> <<>>, workers |-> 0]

\* The backend before its first /start.
BackendInit ==
    /\ pause_event = FALSE
    /\ stop_event = FALSE
    /\ stop_save_flag = 0
    /\ progress_queue = <<>>
    /\ background_process = "none"
    /\ handler = "none"
    /\ input_fs = [status |-> "missing", games |-> <<>>]
    /\ output_file = NoOutput
    /\ settings = NoSettings
    /\ pc = "idle"
    /\ temp_dir = FALSE
    /\ game_offsets = <<>>
    /\ chunks = <<>>
    /\ task = <<>>
    /\ tmp = <<>>
    /\ temp_files = <<>>
    /\ final_message = "none"
    /\ scenario \in Scenarios
    /\ request = [min_elo |-> 0, max_ply |-> 0, min_ply |-> 0, eco_prefix |-> <<>>, workers |-> 0]
    /\ events = <<>>
    /\ procs = {}
    /\ runs = 0
    /\ calls = 0
    /\ run_stops = {}
    /\ mid_stops = {}
    /\ output_at_start = NoOutput
    /\ stale_at_start = [pause |-> FALSE, stop |-> FALSE, save |-> 0]
    /\ merge_fault = "none"
    /\ paused_seen = FALSE

\* The standalone script not started, its working directory empty.
NoMain ==
    [pc |-> "none", args |-> <<>>, num_workers |-> 0, offsets |-> <<>>, chunks |-> <<>>,
     temp_files |-> <<>>, done |-> {}, pool |-> "none", raised |-> FALSE,
     unique_positions |-> {}]

NoDisk == [input |-> [status |-> "missing", games |-> <<>>], opened |-> FALSE,
           tmp |-> <<>>, output |-> NoOutput]

Init ==
    /\ BackendInit
    /\ main = NoMain
    /\ disk = NoDisk

\* ------------------------------------------------------------ server.py
\* The pool exists and tasks may run: from the submission (line 193) to
\* pool.terminate() (line 221) or pool.close() (line 236).
PoolPcs == {"monitor", "stop_check", "emit", "post", "terminate"}

\* A run is in progress: its tasks are submitted and one has not finished.
InProgress ==
    /\ background_process = "alive"
    /\ pc \in PoolPcs \cup {"save_flag"}
    /\ \E c \in DOMAIN task : ~Ready(task[c])

\* A start that never finds the process alive.
AlreadyRunning_NeverAlive == FALSE

\* server.py:128
AlreadyRunning == background_process = "alive"

\* A start that forgets stop_event.clear().
ResetEvents_KeepStop ==
    /\ pause_event' = FALSE
    /\ stop_event' = stop_event
    /\ stop_save_flag' = 0

\* server.py:136-138
ResetEvents ==
    /\ pause_event' = FALSE
    /\ stop_event' = FALSE
    /\ stop_save_flag' = 0

\* settings.dict() of the ProcessingSettings parsed from the request body
\* (server.py:45-51, 146): the fields of the model, nothing else.
SettingsDict(req) ==
    [min_elo |-> req.min_elo, max_ply |-> req.max_ply,
     eco_prefix |-> req.eco_prefix, workers |-> req.workers]

\* start_processing, server.py:125-156, accepted. The file the request names is
\* in any of InputStates.
Start(req, fs) ==
    /\ handler = "none"
    /\ runs < ScenarioRuns(scenario)
    /\ <<req, fs>> \in ScenarioInputs(scenario)
    /\ ~AlreadyRunning
    /\ progress_queue' = <<>>
    /\ ResetEvents
    /\ background_process' = "alive"
    /\ settings' = SettingsDict(req)
    /\ pc' = "entry"
    /\ input_fs' = fs
    /\ temp_dir' = FALSE
    /\ game_offsets' = <<>>
    /\ chunks' = <<>>
    /\ task' = <<>>
    /\ tmp' = <<>>
    /\ temp_files' = <<>>
    /\ final_message' = "none"
    /\ request' = req
    /\ events' = <<>>
    /\ procs' = procs \cup {runs + 1}
    /\ runs' = runs + 1
    /\ run_stops' = {}
    /\ mid_stops' = {}
    /\ output_at_start' = output_file
    /\ stale_at_start' = [pause |-> pause_event, stop |-> stop_event, save |-> stop_save_flag]
    /\ merge_fault' = "none"
    /\ paused_seen' = FALSE
    /\ UNCHANGED <<handler, output_file, calls, scenario, main, disk>>

\* start_processing, server.py:128-129: rejected, an error response
StartRejected ==
    /\ handler = "none"
    /\ AlreadyRunning
    /\ UNCHANGED vars

\* pause_processing, server.py:163-166
Pause ==
    /\ handler = "none"
    /\ calls < MaxCalls
    /\ pause_event' = TRUE
    /\ calls' = calls + 1
    /\ UNCHANGED <<stop_event, stop_save_flag, progress_queue, background_process,
                   handler, fs_vars, run_vars, scenario, main, disk, request, events, procs, runs,
                   run_stops, mid_stops, output_at_start, stale_at_start,
                   merge_fault, paused_seen>>

\* resume_processing, server.py:168-171
Resume ==
    /\ handler = "none"
    /\ calls < MaxCalls
    /\ pause_event' = FALSE
    /\ calls' = calls + 1
    /\ UNCHANGED <<stop_event, stop_save_flag, progress_queue, background_process,
                   handler, fs_vars, run_vars, scenario, main, disk, request, events, procs, runs,
                   run_stops, mid_stops, output_at_start, stale_at_start,
                   merge_fault, paused_seen>>

\* A stop handler that leaves stop_save_flag as it finds it.
StopSetFlag_KeepFlag(save) ==
    /\ handler = "none"
    /\ calls < MaxCalls
    /\ stop_save_flag' = stop_save_flag
    /\ handler' = IF save THEN "stop_save" ELSE "stop_discard"
    /\ calls' = calls + 1
    /\ run_stops' = IF background_process = "alive" THEN run_stops \cup {save} ELSE run_stops
    /\ UNCHANGED <<pause_event, stop_event, progress_queue, background_process,
                   fs_vars, run_vars, scenario, main, disk, request, events, procs, runs, mid_stops,
                   output_at_start, stale_at_start, merge_fault, paused_seen>>

\* stop_processing, server.py:173-180: the write of stop_save_flag. The handler
\* runs on the server's event loop, so no other handler runs before its second
\* write; the background process does.
StopSetFlag(save) ==
    /\ handler = "none"
    /\ calls < MaxCalls
    /\ stop_save_flag' = IF save THEN 1 ELSE 0
    /\ handler' = IF save THEN "stop_save" ELSE "stop_discard"
    /\ calls' = calls + 1
    /\ run_stops' = IF background_process = "alive" THEN run_stops \cup {save} ELSE run_stops
    /\ UNCHANGED <<pause_event, stop_event, progress_queue, background_process,
                   fs_vars, run_vars, scenario, main, disk, request, events, procs, runs, mid_stops,
                   output_at_start, stale_at_start, merge_fault, paused_seen>>

\* stop_processing, server.py:182: stop_event.set()
StopSetEvent ==
    /\ handler \in {"stop_save", "stop_discard"}
    /\ stop_event' = TRUE
    /\ handler' = "none"
    /\ mid_stops' = IF InProgress THEN mid_stops \cup {handler = "stop_save"} ELSE mid_stops
    /\ UNCHANGED <<pause_event, stop_save_flag, progress_queue, background_process,
                   fs_vars, run_vars, scenario, main, disk, request, events, procs, runs, calls, run_stops,
                   output_at_start, stale_at_start, merge_fault, paused_seen>>

\* ------------------------------------------- processor.py, run_processing
\* line 148: tempfile.mkdtemp
RunEntry ==
    /\ pc = "entry"
    /\ temp_dir' = TRUE
    /\ pc' = "scan"
    /\ UNCHANGED <<server_vars, fs_vars, settings, game_offsets, chunks, task, tmp,
                   temp_files, final_message, hist_vars>>

\* lines 162-166: the offset of every line that starts a record
ScanOffsets(games) == [ i \in 1..Len(games) |-> i ]

\* lines 154-176: the scan, its FileNotFoundError branch and the empty input
Scan ==
    /\ pc = "scan"
    /\ CASE input_fs.status = "missing" ->
              /\ Emit(Event("error", -1, "not_found", TRUE))
              /\ pc' = "finally"
              /\ UNCHANGED game_offsets
         [] input_fs.status = "unreadable" ->
              /\ pc' = "except"
              /\ UNCHANGED <<game_offsets, progress_queue, events>>
         [] OTHER ->
              IF ScanOffsets(input_fs.games) = <<>>
              THEN /\ Emit(Event("complete", -1, "no_games", TRUE))
                   /\ pc' = "finally"
                   /\ UNCHANGED game_offsets
              ELSE /\ game_offsets' = ScanOffsets(input_fs.games)
                   /\ pc' = "plan"
                   /\ UNCHANGED <<progress_queue, events>>
    /\ UNCHANGED <<ctl_vars, fs_vars, settings, temp_dir, chunks, task, tmp, temp_files,
                   final_message, book_vars, merge_fault, paused_seen>>

\* lines 178-184
Plan ==
    /\ pc = "plan"
    /\ chunks' = Planner(game_offsets)
    /\ pc' = "pool"
    /\ UNCHANGED <<server_vars, fs_vars, settings, temp_dir, game_offsets, task, tmp,
                   temp_files, final_message, hist_vars>>

\* lines 188-194: the pool and one task per chunk. Pool raises ValueError for
\* fewer than one process.
CreatePool ==
    /\ pc = "pool"
    /\ IF settings.workers < 1
       THEN /\ pc' = "except"
            /\ UNCHANGED <<task, tmp>>
       ELSE /\ task' = [ c \in DOMAIN chunks |-> [state |-> "queued", pc |-> "none", i |-> 0, pos |-> 0] ]
            /\ tmp' = [ c \in DOMAIN chunks |-> NoFile ]
            /\ pc' = "monitor"
    /\ UNCHANGED <<server_vars, fs_vars, settings, temp_dir, game_offsets, chunks,
                   temp_files, final_message, hist_vars>>

\* line 197
Monitor ==
    /\ pc = "monitor"
    /\ pc' = IF \A c \in DOMAIN task : Ready(task[c]) THEN "post" ELSE "stop_check"
    /\ UNCHANGED <<server_vars, fs_vars, settings, temp_dir, game_offsets, chunks, task,
                   tmp, temp_files, final_message, hist_vars>>

\* A monitoring loop that does not look at stop.
MonitorStop_Blind ==
    /\ pc = "stop_check"
    /\ pc' = "emit"
    /\ UNCHANGED <<server_vars, fs_vars, settings, temp_dir, game_offsets, chunks, task,
                   tmp, temp_files, final_message, hist_vars>>

\* lines 198-200
MonitorStop ==
    /\ pc = "stop_check"
    /\ pc' = IF stop_event THEN "post" ELSE "emit"
    /\ UNCHANGED <<server_vars, fs_vars, settings, temp_dir, game_offsets, chunks, task,
                   tmp, temp_files, final_message, hist_vars>>

\* line 203: int((completed_count / len(results)) * 95)
Progress(completed, total) == (completed * 95) \div total

\* A count of the tasks handed to a worker, finished or not.
completed_count_Dispatched == Cardinality({ c \in DOMAIN task : task[c].state # "queued" })

\* line 202
completed_count == Cardinality({ c \in DOMAIN task : Ready(task[c]) })

\* lines 202-209
MonitorEmit ==
    /\ pc = "emit"
    /\ Emit(Event(IF pause_event THEN "paused" ELSE "processing",
                  Progress(completed_count, Len(task)), "processed", FALSE))
    /\ pc' = "monitor"
    /\ UNCHANGED <<ctl_vars, fs_vars, settings, temp_dir, game_offsets, chunks, task,
                   tmp, temp_files, final_message, book_vars, merge_fault, paused_seen>>

\* line 219
PostLoop ==
    /\ pc = "post"
    /\ pc' = IF stop_event THEN "terminate" ELSE "join"
    /\ UNCHANGED <<server_vars, fs_vars, settings, temp_dir, game_offsets, chunks, task,
                   tmp, temp_files, final_message, hist_vars>>

\* A stop path that collects the temp file of every task that created one.
Terminate_CollectAll ==
    /\ pc = "terminate"
    /\ task' = [ c \in DOMAIN task |->
                   IF Ready(task[c]) THEN task[c] ELSE [task[c] EXCEPT !.state = "killed"] ]
    /\ temp_files' = [ k \in 1..Cardinality({ c \in DOMAIN task : tmp[c].exists }) |->
                         tmp[SortedSeq({ c \in DOMAIN task : tmp[c].exists })[k]].name ]
    /\ pc' = "save_flag"
    /\ UNCHANGED <<server_vars, fs_vars, settings, temp_dir, game_offsets, chunks, tmp,
                   final_message, hist_vars>>

\* lines 221-225: pool.terminate() ends every task that has not finished; the
\* results of the ready and successful ones are collected.
Terminate ==
    /\ pc = "terminate"
    /\ task' = [ c \in DOMAIN task |->
                   IF Ready(task[c]) THEN task[c] ELSE [task[c] EXCEPT !.state = "killed"] ]
    /\ temp_files' = [ k \in 1..Cardinality({ c \in DOMAIN task : Ready(task[c]) /\ Successful(task[c]) }) |->
                         ResultOf(SortedSeq({ c \in DOMAIN task : Ready(task[c]) /\ Successful(task[c]) })[k]) ]
    /\ pc' = "save_flag"
    /\ UNCHANGED <<server_vars, fs_vars, settings, temp_dir, game_offsets, chunks, tmp,
                   final_message, hist_vars>>

\* A stop path that saves whatever the flag says.
SaveOnStop_Always == TRUE

\* lines 227-232: which branch of the stop path is taken
SaveOnStop == stop_save_flag # 0

ReadSaveFlag ==
    /\ pc = "save_flag"
    /\ IF SaveOnStop
       THEN /\ final_message' = "partial_saved"
            /\ pc' = "merge"
       ELSE /\ pc' = "discard"
            /\ UNCHANGED final_message
    /\ UNCHANGED <<server_vars, fs_vars, settings, temp_dir, game_offsets, chunks, task,
                   tmp, temp_files, hist_vars>>

\* A discard that reports nothing.
Discard_Silent ==
    /\ pc = "discard"
    /\ tmp' = Cleanup(Range(temp_files))
    /\ pc' = "finally"
    /\ UNCHANGED <<server_vars, fs_vars, settings, temp_dir, game_offsets, chunks, task,
                   temp_files, final_message, hist_vars>>

\* lines 233-234
Discard ==
    /\ pc = "discard"
    /\ tmp' = Cleanup(Range(temp_files))
    /\ Emit(Event("stopped", -1, "discarded", TRUE))
    /\ pc' = "finally"
    /\ UNCHANGED <<ctl_vars, fs_vars, settings, temp_dir, game_offsets, chunks, task,
                   temp_files, final_message, book_vars, merge_fault, paused_seen>>

\* A check that is content with one successful task.
AllSuccessful_Any == \E c \in DOMAIN task : Successful(task[c])

\* line 240
AllSuccessful == \A c \in DOMAIN task : Successful(task[c])

\* lines 236-240, 246-250
Join ==
    /\ pc = "join"
    /\ IF ~AllSuccessful
       THEN /\ pc' = "abort"
            /\ UNCHANGED <<temp_files, final_message>>
       ELSE /\ temp_files' = [ c \in DOMAIN task |-> ResultOf(c) ]
            /\ final_message' = "saved"
            /\ pc' = "merge"
    /\ UNCHANGED <<server_vars, fs_vars, settings, temp_dir, game_offsets, chunks, task,
                   tmp, hist_vars>>

\* lines 241-245
Abort ==
    /\ pc = "abort"
    /\ tmp' = Cleanup({ ResultOf(c) : c \in { d \in DOMAIN task : Ready(task[d]) /\ Successful(task[d]) } })
    /\ Emit(Event("error", -1, "worker_failed", TRUE))
    /\ pc' = "finally"
    /\ UNCHANGED <<ctl_vars, fs_vars, settings, temp_dir, game_offsets, chunks, task,
                   temp_files, final_message, book_vars, merge_fault, paused_seen>>

\* _merge_files, lines 115-140. Opening the output file, or a write to it, may
\* fail: then the output holds what was written before the failure.
Merge ==
    /\ pc = "merge"
    /\ LET valid_temp_files == ValidTempFiles(temp_files)
           order == SortedSeq(valid_temp_files)
       IN  IF valid_temp_files = {}
           THEN /\ Emit(Event("complete", 100, "no_data", TRUE))
                /\ UNCHANGED <<output_file, tmp, merge_fault>>
           ELSE /\ \E fault \in {"none", "open", "write"} :
                     /\ merge_fault' = fault
                     /\ CASE fault = "none" ->
                               /\ output_file' = [exists |-> TRUE, lines |-> Concat(order)]
                               /\ Emit(Event("complete", 100, final_message, TRUE))
                          [] fault = "open" ->
                               /\ UNCHANGED output_file
                               /\ Emit(Event("error", -1, "merge_failed", TRUE))
                          [] OTHER ->
                               /\ \E k \in 0..(Len(order) - 1) :
                                     output_file' = [exists |-> TRUE, lines |-> Concat(SubSeq(order, 1, k))]
                               /\ Emit(Event("error", -1, "merge_failed", TRUE))
                /\ tmp' = Cleanup(valid_temp_files)
    /\ pc' = "finally"
    /\ UNCHANGED <<ctl_vars, input_fs, settings, temp_dir, game_offsets, chunks, task,
                   temp_files, final_message, book_vars, paused_seen>>

\* lines 253-255
Except ==
    /\ pc = "except"
    /\ Emit(Event("error", -1, "critical", TRUE))
    /\ pc' = "finally"
    /\ UNCHANGED <<ctl_vars, fs_vars, settings, temp_dir, game_offsets, chunks, task,
                   tmp, temp_files, final_message, book_vars, merge_fault, paused_seen>>

\* A cleanup that removes the files the tasks returned and nothing else.
Finally_ReturnedOnly ==
    /\ pc = "finally"
    /\ temp_dir' = FALSE
    /\ tmp' = [ c \in DOMAIN tmp |-> IF task[c].state = "ok" THEN NoFile ELSE tmp[c] ]
    /\ pc' = "returned"
    /\ UNCHANGED <<server_vars, fs_vars, settings, game_offsets, chunks, task,
                   temp_files, final_message, hist_vars>>

\* lines 256-264: shutil.rmtree(temp_dir), then run_processing returns
Finally ==
    /\ pc = "finally"
    /\ temp_dir' = FALSE
    /\ tmp' = [ c \in DOMAIN tmp |-> NoFile ]
    /\ pc' = "returned"
    /\ UNCHANGED <<server_vars, fs_vars, settings, game_offsets, chunks, task,
                   temp_files, final_message, hist_vars>>

\* The background process ends: is_alive() of server.py:128 turns false.
ProcessExit ==
    /\ pc = "returned"
    /\ background_process = "alive"
    /\ background_process' = "dead"
    /\ procs' = procs \ {runs}
    /\ pc' = "exited"
    /\ UNCHANGED <<pause_event, stop_event, stop_save_flag, progress_queue, handler,
                   fs_vars, settings, temp_dir, game_offsets, chunks, task, tmp,
                   temp_files, final_message, scenario, main, disk, request, events, runs, calls, run_stops,
                   mid_stops, output_at_start, stale_at_start, merge_fault, paused_seen>>


\* -------------------------------------------- processor.py, worker_process
WorkerUnchanged ==
    UNCHANGED <<server_vars, fs_vars, settings, pc, temp_dir, game_offsets, chunks,
                temp_files, final_message, scenario, main, disk, request, events, procs, runs, calls,
                run_stops, mid_stops, output_at_start, stale_at_start, merge_fault>>

Running(c) == pc \in PoolPcs /\ c \in DOMAIN task /\ task[c].state = "running"

\* The pool hands the queued tasks, in submission order, to at most
\* settings.workers processes. Lines 53-63: the task creates its temp file and
\* opens the input at the chunk's offset; a failure there raises.
TaskStart(c) ==
    /\ pc \in PoolPcs
    /\ c \in DOMAIN task
    /\ task[c].state = "queued"
    /\ \A d \in DOMAIN task : d < c => task[d].state # "queued"
    /\ Cardinality({ d \in DOMAIN task : task[d].state = "running" }) < settings.workers
    /\ \E n \in 1..Len(chunks) :
          /\ \A d \in DOMAIN tmp : tmp[d].name # n
          /\ tmp' = [tmp EXCEPT ![c] = [exists |-> TRUE, name |-> n, lines |-> <<>>]]
    /\ \E opened \in BOOLEAN :
          task' = [task EXCEPT ![c] =
                     IF opened
                     THEN [state |-> "running", pc |-> "stop_check", i |-> 0,
                           pos |-> chunks[c].offset]
                     ELSE [state |-> "failed", pc |-> "none", i |-> 0, pos |-> 0]]
    /\ UNCHANGED paused_seen
    /\ WorkerUnchanged

\* lines 65-68: the end of the for loop, else the stop check
WorkerStopCheck(c) ==
    /\ Running(c)
    /\ task[c].pc = "stop_check"
    /\ task' = [task EXCEPT ![c] =
                  IF task[c].i = chunks[c].num_games THEN [@ EXCEPT !.state = "ok", !.pc = "none"]
                  ELSE IF stop_event THEN [@ EXCEPT !.state = "none", !.pc = "none"]
                  ELSE [@ EXCEPT !.pc = "pause_check"]]
    /\ UNCHANGED <<tmp, paused_seen>>
    /\ WorkerUnchanged

\* A worker that does not look at pause.
WorkerPauseCheck_Ignore(c) ==
    /\ Running(c)
    /\ task[c].pc = "pause_check"
    /\ task' = [task EXCEPT ![c].pc = "read"]
    /\ paused_seen' = (paused_seen \/ pause_event)
    /\ UNCHANGED tmp
    /\ WorkerUnchanged

\* line 70
WorkerPauseCheck(c) ==
    /\ Running(c)
    /\ task[c].pc = "pause_check"
    /\ task' = [task EXCEPT ![c].pc = IF pause_event THEN "pause_wait" ELSE "read"]
    /\ paused_seen' = (paused_seen \/ pause_event)
    /\ UNCHANGED tmp
    /\ WorkerUnchanged

\* A pause wait that loses the record it was about to read.
ResumeAt_Skip(t) == t.pos + 1

\* The position of the worker's file handle when it leaves the pause wait:
\* lines 70-77 do not touch it.
ResumeAt(t) == t.pos

\* line 72
WorkerPauseWait(c) ==
    /\ Running(c)
    /\ task[c].pc = "pause_wait"
    /\ task' = [task EXCEPT ![c] =
                  IF pause_event THEN [@ EXCEPT !.pc = "pause_stop"]
                  ELSE [@ EXCEPT !.pc = "read", !.pos = ResumeAt(task[c])]]
    /\ UNCHANGED <<tmp, paused_seen>>
    /\ WorkerUnchanged

\* lines 73-76
WorkerPauseStop(c) ==
    /\ Running(c)
    /\ task[c].pc = "pause_stop"
    /\ task' = [task EXCEPT ![c] =
                  IF stop_event THEN [@ EXCEPT !.state = "none", !.pc = "none"]
                  ELSE [@ EXCEPT !.pc = "pause_wait"]]
    /\ UNCHANGED <<tmp, paused_seen>>
    /\ WorkerUnchanged

\* lines 79-99: read_game at the handle's position (None at the end of the
\* file ends the chunk), the filters and the write; an I/O error raises.
WorkerRead(c) ==
    /\ Running(c)
    /\ task[c].pc = "read"
    /\ \E raised \in BOOLEAN :
          IF raised
          THEN /\ task' = [task EXCEPT ![c] = [@ EXCEPT !.state = "failed", !.pc = "none"]]
               /\ UNCHANGED tmp
          ELSE IF task[c].pos > Len(input_fs.games)
          THEN /\ task' = [task EXCEPT ![c] = [@ EXCEPT !.state = "ok", !.pc = "none"]]
               /\ UNCHANGED tmp
          ELSE /\ tmp' = [tmp EXCEPT ![c].lines = @ \o WorkerLines(input_fs.games[task[c].pos], settings)]
               /\ task' = [task EXCEPT ![c] = [@ EXCEPT !.pc = "stop_check", !.i = @ + 1, !.pos = @ + 1]]
    /\ UNCHANGED paused_seen
    /\ WorkerUnchanged

\* ------------------------------------------ src/epdpgnPython.py, standalone
\* The command line of the script (lines 86-111): --min-ply, --max-ply, --elo,
\* --eco (the empty prefix for None) and --workers.
MainArgs ==
    [min_ply : {1, 2, 3}, max_ply : {1, 2}, elo : {0, 2}, eco : {<<>>, <<"C">>},
     workers : 0..MaxGames]

\* line 113
BadPlyRange_Never(args) == FALSE

\* line 113
BadPlyRange(args) == args.min_ply > args.max_ply

\* The line written for the position after ply p of a game: its FEN and the id
\* string of the game (lines 61, 72-74).
PositionLine(game, p) == game.line * 10 + p

RECURSIVE PlyLoop_PastMax(_, _, _, _)
\* A loop that takes one step more than max_ply.
PlyLoop_PastMax(game, args, ply, local) ==
    IF ply <= args.max_ply /\ ply < game.ply
    THEN PlyLoop_PastMax(game, args, ply + 1,
                 IF ply + 1 >= args.min_ply
                 THEN local \cup { PositionLine(game, ply + 1) } ELSE local)
    ELSE local

RECURSIVE PlyLoop(_, _, _, _)
\* process_game_chunk, lines 62-74: the while loop over the main line of the
\* game, from the node at `ply` with the lines `local` collected so far;
\* node.is_end() holds after the last ply of the game.
PlyLoop(game, args, ply, local) ==
    IF ply < args.max_ply /\ ply < game.ply
    THEN PlyLoop(game, args, ply + 1,
                 IF ply + 1 >= args.min_ply
                 THEN local \cup { PositionLine(game, ply + 1) } ELSE local)
    ELSE local

\* process_game_chunk, lines 47-74: the lines one game adds to the set of its chunk
GameLines(game, args) ==
    IF args.eco # <<>> /\ ~StartsWith(game.eco, args.eco) THEN {}
    ELSE IF args.elo > 0 /\ (game.white_elo < 0 \/ game.black_elo < 0) THEN {}
    ELSE IF args.elo > 0 /\ (game.white_elo < args.elo \/ game.black_elo < args.elo) THEN {}
    ELSE PlyLoop(game, args, 0, {})

\* process_game_chunk, lines 35-79: local_unique_positions of a list of offsets
ChunkPositions(offsets, games, args) ==
    UNION { GameLines(games[offsets[i]], args) : i \in 1..Len(offsets) }

\* main, lines 145-146: the slices of the offset list, for num_workers >= 1
MainChunks(offsets, num_workers) ==
    LET total_games == Len(offsets)
        chunk_size  == (total_games + num_workers - 1) \div num_workers
        k           == (total_games + chunk_size - 1) \div chunk_size
    IN  [ c \in 1..k |->
            SubSeq(offsets, (c - 1) * chunk_size + 1, Min(c * chunk_size, total_games)) ]

BackendIdle == UNCHANGED <<server_vars, fs_vars, run_vars, scenario, request, events,
                           procs, runs, calls, run_stops, mid_stops, output_at_start,
                           stale_at_start, merge_fault, paused_seen>>

\* main, lines 113-119: the check of the ply range, then the number of workers
MainCheckPly ==
    /\ main.pc = "args"
    /\ main' = IF BadPlyRange(main.args)
               THEN [main EXCEPT !.pc = "returned"]
               ELSE [main EXCEPT !.pc = "scan", !.num_workers = main.args.workers]
    /\ UNCHANGED disk
    /\ BackendIdle

\* main, lines 129-140: the scan; only FileNotFoundError is caught
MainScan ==
    /\ main.pc = "scan"
    /\ CASE disk.input.status = "missing" ->
              /\ main' = [main EXCEPT !.pc = "returned"]
              /\ UNCHANGED disk
         [] disk.input.status = "unreadable" ->
              /\ main' = [main EXCEPT !.pc = "crashed"]
              /\ UNCHANGED disk
         [] OTHER ->
              /\ disk' = [disk EXCEPT !.opened = TRUE]
              /\ main' = IF ScanOffsets(disk.input.games) = <<>>
                         THEN [main EXCEPT !.pc = "returned"]
                         ELSE [main EXCEPT !.pc = "plan",
                                           !.offsets = ScanOffsets(disk.input.games)]
    /\ BackendIdle

\* main, lines 145-155: the chunks and the names of their temp files; a
\* division by zero workers is not caught.
MainPlan ==
    /\ main.pc = "plan"
    /\ main' = IF main.num_workers = 0
               THEN [main EXCEPT !.pc = "crashed"]
               ELSE [main EXCEPT !.pc = "pool",
                                 !.chunks = MainChunks(main.offsets, main.num_workers),
                                 !.temp_files = [ i \in 1..Len(MainChunks(main.offsets, main.num_workers)) |-> i ]]
    /\ UNCHANGED disk
    /\ BackendIdle

\* main, line 160
MainPool ==
    /\ main.pc = "pool"
    /\ main' = [main EXCEPT !.pc = "workers", !.pool = "open"]
    /\ disk' = [disk EXCEPT !.tmp = [ i \in DOMAIN main.temp_files |-> NoFile ]]
    /\ BackendIdle

\* process_game_chunk for chunk i, as the pool runs it (lines 27-79, 163): it
\* writes its temp file at its end; a worker that raises ends the loop of
\* line 163, the pool is terminated on the way out.
MainWorker(i) ==
    /\ main.pc = "workers"
    /\ i \in DOMAIN main.chunks
    /\ i \notin main.done
    /\ \E raised \in BOOLEAN :
          IF raised
          THEN /\ main' = [main EXCEPT !.pc = "finally", !.pool = "terminated", !.raised = TRUE]
               /\ UNCHANGED disk
          ELSE /\ disk' = [disk EXCEPT !.tmp[i] =
                             [exists |-> TRUE, name |-> main.temp_files[i],
                              lines |-> ChunkPositions(main.chunks[i], disk.input.games, main.args)]]
               /\ main' = [main EXCEPT !.done = @ \cup {i}]
    /\ BackendIdle

\* main, lines 163-175: every chunk is done, the pool is closed, the lines of
\* the temp files are added to unique_positions
MainCollect ==
    /\ main.pc = "workers"
    /\ main.done = DOMAIN main.chunks
    /\ main' = [main EXCEPT !.pc = "write", !.pool = "closed",
                  !.unique_positions =
                     UNION { disk.tmp[i].lines : i \in { j \in DOMAIN disk.tmp : disk.tmp[j].exists } }]
    /\ UNCHANGED disk
    /\ BackendIdle

\* main, lines 178-180: sorted(list(unique_positions)) written to the output;
\* the output may fail to open.
MainWrite ==
    /\ main.pc = "write"
    /\ \E failed \in BOOLEAN :
          IF failed
          THEN /\ main' = [main EXCEPT !.pc = "finally", !.raised = TRUE]
               /\ UNCHANGED disk
          ELSE /\ disk' = [disk EXCEPT !.output =
                             [exists |-> TRUE, lines |-> SortedSeq(main.unique_positions)]]
               /\ main' = [main EXCEPT !.pc = "finally"]
    /\ BackendIdle

\* A cleanup that runs only when nothing was raised.
MainFinally_OnSuccess ==
    /\ main.pc = "finally"
    /\ disk' = IF main.raised THEN disk
               ELSE [disk EXCEPT !.tmp = [ i \in DOMAIN disk.tmp |-> NoFile ]]
    /\ main' = [main EXCEPT !.pc = IF main.raised THEN "crashed" ELSE "returned"]
    /\ BackendIdle

\* main, lines 181-185, then the end of main or the exception on its way out
MainFinally ==
    /\ main.pc = "finally"
    /\ disk' = [disk EXCEPT !.tmp = [ i \in DOMAIN disk.tmp |-> NoFile ]]
    /\ main' = [main EXCEPT !.pc = IF main.raised THEN "crashed" ELSE "returned"]
    /\ BackendIdle

\* ------------------------------------------------------------------ Next
Next ==
    \/ \E req \in Requests, fs \in InputStates : Start(req, fs)
    \/ StartRejected
    \/ Pause
    \/ Resume
    \/ \E save \in BOOLEAN : StopSetFlag(save)
    \/ StopSetEvent
    \/ RunEntry
    \/ Scan
    \/ Plan
    \/ CreatePool
    \/ Monitor
    \/ MonitorStop
    \/ MonitorEmit
    \/ PostLoop
    \/ Terminate
    \/ ReadSaveFlag
    \/ Discard
    \/ Join
    \/ Abort
    \/ Merge
    \/ Except
    \/ Finally
    \/ ProcessExit
    \/ \E c \in 1..MaxGames : TaskStart(c)
    \/ \E c \in 1..MaxGames : WorkerStopCheck(c)
    \/ \E c \in 1..MaxGames : WorkerPauseCheck(c)
    \/ \E c \in 1..MaxGames : WorkerPauseWait(c)
    \/ \E c \in 1..MaxGames : WorkerPauseStop(c)
    \/ \E c \in 1..MaxGames : WorkerRead(c)

Spec == Init /\ [][Next]_vars

\* The standalone script, started once on any command line and any input file.
MainInit ==
    /\ BackendInit
    /\ scenario = "one_run"
    /\ \E args \in MainArgs, fs \in InputStates :
          /\ main = [NoMain EXCEPT !.pc = "args", !.args = args]
          /\ disk = [NoDisk EXCEPT !.input = fs]

MainNext ==
    \/ MainCheckPly
    \/ MainScan
    \/ MainPlan
    \/ MainPool
    \/ \E i \in 1..MaxGames : MainWorker(i)
    \/ MainCollect
    \/ MainWrite
    \/ MainFinally

SpecMain == MainInit /\ [][MainNext]_vars

\* The control plane while the run of an accepted start(req) is in flight and
\* nothing else was called.
InFlight(req) ==
    /\ pause_event = FALSE
    /\ stop_event = FALSE
    /\ stop_save_flag = 0
    /\ progress_queue = <<>>
    /\ background_process = "alive"
    /\ handler = "none"
    /\ output_file = NoOutput
    /\ settings = SettingsDict(req)
    /\ temp_dir = TRUE
    /\ temp_files = <<>>
    /\ final_message = "none"
    /\ scenario = "one_run"
    /\ request = req
    /\ events = <<>>
    /\ procs = {1}
    /\ runs = 1
    /\ calls = 0
    /\ run_stops = {}
    /\ mid_stops = {}
    /\ output_at_start = NoOutput
    /\ stale_at_start = [pause |-> FALSE, stop |-> FALSE, save |-> 0]
    /\ merge_fault = "none"
    /\ paused_seen = FALSE

\* The ordered lists of byte offsets a scan can find: at most MaxGames records,
\* at strictly increasing offsets.
OffsetLists ==
    { SortedSeq(S) : S \in { T \in SUBSET (0..MaxOffset) : T # {} /\ Cardinality(T) <= MaxGames } }

\* The two planners, each about to run on the same list of offsets: the
\* backend after its scan (line 176), the script after its scan (line 142)
\* with one worker or more.
PlanInit ==
    \E offsets \in OffsetLists, num_workers \in 1..MaxGames :
        /\ InFlight([min_elo |-> 0, max_ply |-> 3, min_ply |-> 1, eco_prefix |-> <<>>,
                     workers |-> num_workers])
        /\ input_fs = [status |-> "ok", games |-> <<>>]
        /\ pc = "plan"
        /\ game_offsets = offsets
        /\ chunks = <<>>
        /\ task = <<>>
        /\ tmp = <<>>
        /\ main = [NoMain EXCEPT !.pc = "plan", !.offsets = offsets,
                                 !.num_workers = num_workers,
                                 !.args = [min_ply |-> 1, max_ply |-> 2, elo |-> 0,
                                           eco |-> <<>>, workers |-> num_workers]]
        /\ disk = [NoDisk EXCEPT !.opened = TRUE]

PlanNext ==
    \/ Plan
    \/ MainPlan

SpecPlan == PlanInit /\ [][PlanNext]_vars

\* The records given to the filter of the backend worker: every pair of
\* ratings around the thresholds (a negative one is unparsable), two lengths,
\* two openings.
FilterGames ==
    [white_elo : {-1, 1, 2, 3}, black_elo : {-1, 1, 2, 3}, ply : {2, 4},
     eco : {<<"A">>, <<"C">>}, line : {1}]

FilterRequests ==
    [min_elo : {0, 2, 3}, max_ply : {3}, min_ply : {1}, eco_prefix : {<<>>, <<"C">>},
     workers : {1}]

\* A worker about to read the only record of its chunk (line 79).
FilterInit ==
    \E game \in FilterGames, req \in FilterRequests :
        /\ InFlight(req)
        /\ input_fs = [status |-> "ok", games |-> <<game>>]
        /\ pc = "monitor"
        /\ game_offsets = ScanOffsets(<<game>>)
        /\ chunks = Planner(ScanOffsets(<<game>>))
        /\ task = << [state |-> "running", pc |-> "read", i |-> 0, pos |-> 1] >>
        /\ tmp = << [exists |-> TRUE, name |-> 1, lines |-> <<>>] >>
        /\ main = NoMain
        /\ disk = NoDisk

FilterNext ==
    \/ \E c \in 1..MaxGames : WorkerRead(c)
    \/ \E c \in 1..MaxGames : WorkerStopCheck(c)

SpecFilter == FilterInit /\ [][FilterNext]_vars


\* One run in flight, after its mkdtemp, with one worker or more, on an input
\* of one record or more; the server receives pause, resume and stop calls.
LiveRequests == { r \in Requests : r.workers >= 1 /\ r.min_elo = 0 }

LiveInit ==
    \E req \in LiveRequests, n \in 1..MaxGames :
        /\ InFlight(req)
        /\ input_fs = [status |-> "ok", games |-> InputFile(n)]
        /\ pc = "scan"
        /\ game_offsets = <<>>
        /\ chunks = <<>>
        /\ task = <<>>
        /\ tmp = <<>>
        /\ main = NoMain
        /\ disk = NoDisk

\* The steps of the background process that runs run_processing.
Coordinator ==
    \/ Scan
    \/ Plan
    \/ CreatePool
    \/ Monitor
    \/ MonitorStop
    \/ MonitorEmit
    \/ PostLoop
    \/ Terminate
    \/ ReadSaveFlag
    \/ Discard
    \/ Join
    \/ Abort
    \/ Merge
    \/ Finally

LiveNext ==
    \/ Pause
    \/ Resume
    \/ \E save \in BOOLEAN : StopSetFlag(save)
    \/ StopSetEvent
    \/ Scan
    \/ Plan
    \/ CreatePool
    \/ Monitor
    \/ MonitorStop
    \/ MonitorEmit
    \/ PostLoop
    \/ Terminate
    \/ ReadSaveFlag
    \/ Discard
    \/ Join
    \/ Abort
    \/ Merge
    \/ Finally
    \/ \E c \in 1..MaxGames : TaskStart(c)
    \/ \E c \in 1..MaxGames : WorkerStopCheck(c)
    \/ \E c \in 1..MaxGames : WorkerPauseCheck(c)
    \/ \E c \in 1..MaxGames : WorkerPauseWait(c)
    \/ \E c \in 1..MaxGames : WorkerPauseStop(c)
    \/ \E c \in 1..MaxGames : WorkerRead(c)

\* The operating system schedules the background process: a step of
\* run_processing that stays possible is taken. Nothing is assumed of the
\* workers or of the callers of the server.
SpecLive == LiveInit /\ [][LiveNext]_vars /\ WF_vars(Coordinator)

\* Where the worker of a chunk can be when pause is set: not started, or at
\* its stop check, at its pause check, or past both and about to read.
PausePoints == {"queued", "stop_check", "pause_check", "read"}

\* The moment pause is set in a run without stop: every worker at the first
\* record of its chunk, at any of PausePoints, on an input whose first chunk
\* has two records or more.
PauseInit ==
    \E req \in LiveRequests, n \in chunk_size_games..MaxGames :
    \E point \in [1..Len(Planner(ScanOffsets(InputFile(n)))) -> PausePoints] :
        /\ \A c, d \in DOMAIN point : (c < d /\ point[c] = "queued") => point[d] = "queued"
        /\ Cardinality({ c \in DOMAIN point : point[c] # "queued" }) <= req.workers
        /\ pause_event = TRUE
        /\ stop_event = FALSE
        /\ stop_save_flag = 0
        /\ progress_queue = <<>>
        /\ background_process = "alive"
        /\ handler = "none"
        /\ input_fs = [status |-> "ok", games |-> InputFile(n)]
        /\ output_file = NoOutput
        /\ settings = SettingsDict(req)
        /\ pc = "monitor"
        /\ temp_dir = TRUE
        /\ game_offsets = ScanOffsets(InputFile(n))
        /\ chunks = Planner(ScanOffsets(InputFile(n)))
        /\ task = [ c \in DOMAIN point |->
                      IF point[c] = "queued"
                      THEN [state |-> "queued", pc |-> "none", i |-> 0, pos |-> 0]
                      ELSE [state |-> "running", pc |-> point[c], i |-> 0,
                            pos |-> Planner(ScanOffsets(InputFile(n)))[c].offset] ]
        /\ tmp = [ c \in DOMAIN point |->
                      IF point[c] = "queued" THEN NoFile
                      ELSE [exists |-> TRUE, name |-> c, lines |-> <<>>] ]
        /\ temp_files = <<>>
        /\ final_message = "none"
        /\ scenario = "one_run"
        /\ request = req
        /\ events = <<>>
        /\ procs = {1}
        /\ runs = 1
        /\ calls = 1
        /\ run_stops = {}
        /\ mid_stops = {}
        /\ output_at_start = NoOutput
        /\ stale_at_start = [pause |-> FALSE, stop |-> FALSE, save |-> 0]
        /\ merge_fault = "none"
        /\ paused_seen = FALSE
        /\ main = NoMain
        /\ disk = NoDisk

\* The workers and the monitoring loop run; the only call is resume.
PauseNext ==
    \/ Resume
    \/ Monitor
    \/ MonitorStop
    \/ MonitorEmit
    \/ \E c \in 1..MaxGames : TaskStart(c)
    \/ \E c \in 1..MaxGames : WorkerStopCheck(c)
    \/ \E c \in 1..MaxGames : WorkerPauseCheck(c)
    \/ \E c \in 1..MaxGames : WorkerPauseWait(c)
    \/ \E c \in 1..MaxGames : WorkerPauseStop(c)
    \/ \E c \in 1..MaxGames : WorkerRead(c)

SpecPause == PauseInit /\ [][PauseNext]_vars

\* The games and command lines for the ply window: games of no ply to MaxPly
\* plies, kept or not by the rating filter, and every pair of --min-ply and
\* --max-ply up to MaxPly.
PlyGames ==
    [white_elo : {1, 3}, black_elo : {3}, ply : 0..MaxPly, eco : {<<"C">>}, line : {1, 2}]

PlyArgs ==
    [min_ply : 1..MaxPly, max_ply : 1..MaxPly, elo : {0, 2}, eco : {<<>>}, workers : {1}]

\* The script started on an input file of one record.
PlyInit ==
    /\ BackendInit
    /\ scenario = "one_run"
    /\ \E args \in PlyArgs, game \in PlyGames :
          /\ main = [NoMain EXCEPT !.pc = "args", !.args = args]
          /\ disk = [NoDisk EXCEPT !.input = [status |-> "ok", games |-> <<game>>]]

SpecPly == PlyInit /\ [][MainNext]_vars

\* ------------------------------------------------ a start during a run
\* One run in flight with one worker; the server receives pause, resume, stop
\* and further start calls, and its broadcaster forwards the queued events.
RejectRequests == { r \in LiveRequests : r.workers = 1 }

RejectInit ==
    \E req \in RejectRequests, n \in 1..MaxGames :
        /\ InFlight(req)
        /\ input_fs = [status |-> "ok", games |-> InputFile(n)]
        /\ pc = "scan"
        /\ game_offsets = <<>>
        /\ chunks = <<>>
        /\ task = <<>>
        /\ tmp = <<>>
        /\ main = NoMain
        /\ disk = NoDisk

\* A start that clears the queue and the events before it looks at the process.
StartCheckAlive_ResetFirst ==
    /\ handler = "none"
    /\ AlreadyRunning
    /\ progress_queue' = <<>>
    /\ ResetEvents
    /\ handler' = "start_rejected"
    /\ UNCHANGED <<background_process, fs_vars, run_vars, hist_vars>>

\* start_processing, server.py:128: the process of the last start is alive.
StartCheckAlive ==
    /\ handler = "none"
    /\ AlreadyRunning
    /\ handler' = "start_rejected"
    /\ UNCHANGED <<pause_event, stop_event, stop_save_flag, progress_queue,
                   background_process, fs_vars, run_vars, hist_vars>>

\* start_processing, server.py:129: the error response; lines 131-156 are not
\* reached.
StartReturnError ==
    /\ handler = "start_rejected"
    /\ handler' = "none"
    /\ UNCHANGED <<pause_event, stop_event, stop_save_flag, progress_queue,
                   background_process, fs_vars, run_vars, hist_vars>>

\* progress_broadcaster, server.py:64-71: one event leaves the queue for the
\* connected clients.
Broadcast ==
    /\ handler = "none"
    /\ progress_queue # <<>>
    /\ progress_queue' = Tail(progress_queue)
    /\ UNCHANGED <<pause_event, stop_event, stop_save_flag, background_process,
                   handler, fs_vars, run_vars, hist_vars>>

RejectNext ==
    \/ StartCheckAlive
    \/ StartReturnError
    \/ Broadcast
    \/ Pause
    \/ Resume
    \/ \E save \in BOOLEAN : StopSetFlag(save)
    \/ StopSetEvent
    \/ Coordinator
    \/ ProcessExit
    \/ \E c \in 1..MaxGames : TaskStart(c)
    \/ \E c \in 1..MaxGames : WorkerStopCheck(c)
    \/ \E c \in 1..MaxGames : WorkerPauseCheck(c)
    \/ \E c \in 1..MaxGames : WorkerPauseWait(c)
    \/ \E c \in 1..MaxGames : WorkerPauseStop(c)
    \/ \E c \in 1..MaxGames : WorkerRead(c)

SpecReject == RejectInit /\ [][RejectNext]_vars

\* ================================================================ claims
Returned == pc \in {"returned", "exited"}
TerminalEvents == { i \in 1..Len(events) : events[i].is_complete }
LastEvent == events[Len(events)]
NoTempLeft == ~temp_dir /\ \A c \in DOMAIN tmp : ~tmp[c].exists

\* C1: the progress callback of a run receives at most one terminal event, of
\* status complete, stopped or error, nothing after it, and exactly one once
\* run_processing has returned.
C1_OneTerminalEvent ==
    /\ Cardinality(TerminalEvents) <= 1
    /\ \A i \in TerminalEvents :
          i = Len(events) /\ events[i].status \in {"complete", "stopped", "error"}
    /\ Returned => Cardinality(TerminalEvents) = 1

\* a run that was paused and stopped, with progress events before its terminal one
C1_Witness ==
    /\ pc = "returned"
    /\ paused_seen
    /\ stop_event
    /\ Len(events) >= 2
    /\ LastEvent.is_complete

\* C2: a stop(save=false) that takes effect while a task of the run has not
\* finished (the stop calls of the run all being save=false) ends the run with
\* a stopped terminal event, the output file as it was at the start of the run
\* and no temp file left.
C2_StopDiscards ==
    (Returned /\ FALSE \in mid_stops /\ run_stops = {FALSE}) =>
        /\ LastEvent.is_complete
        /\ LastEvent.status = "stopped"
        /\ output_file = output_at_start
        /\ NoTempLeft

\* such a run in which one task had returned its temp file and another was cut off
C2_Witness ==
    /\ pc = "returned"
    /\ FALSE \in mid_stops
    /\ run_stops = {FALSE}
    /\ \E c \in DOMAIN task : task[c].state = "ok"
    /\ \E c \in DOMAIN task : task[c].state = "killed"

\* The lines of the temp files the ready tasks returned (their files are gone
\* once the run has returned; the lines are those of the records they read).
RECURSIVE ChunkLines(_, _, _, _)
ChunkLines(games, pos, n, s) ==
    IF n = 0 \/ pos > Len(games) THEN <<>>
    ELSE WorkerLines(games[pos], s) \o ChunkLines(games, pos + 1, n - 1, s)

FinishedLines ==
    UNION { Range(ChunkLines(input_fs.games, chunks[c].offset, chunks[c].num_games, settings))
            : c \in { d \in DOMAIN task : task[d].state = "ok" } }

\* C3: a stop(save=true) that takes effect while a task of the run has not
\* finished (the stop calls of the run all being save=true, the output being
\* writable) ends the run with a complete or stopped terminal event whose
\* message names the partial save, an output file holding only lines of
\* chunks whose task had returned its temp file, and no temp file left.
C3_StopSaves ==
    (Returned /\ TRUE \in mid_stops /\ run_stops = {TRUE} /\ merge_fault = "none") =>
        /\ LastEvent.is_complete
        /\ LastEvent.status \in {"complete", "stopped"}
        /\ LastEvent.message = "partial_saved"
        /\ Range(output_file.lines) \subseteq
              (FinishedLines \cup Range(output_at_start.lines))
        /\ NoTempLeft

RECURSIVE MergeInNameOrder(_)
\* The concatenation, in the order of the temp file names, of what the workers
\* of a run that is never paused write: the lines of the records of each chunk.
MergeInNameOrder(names) ==
    IF names = <<>> THEN <<>>
    ELSE LET c == CHOOSE d \in DOMAIN temp_files : temp_files[d] = Head(names)
         IN  ChunkLines(input_fs.games, chunks[c].offset, chunks[c].num_games, settings)
             \o MergeInNameOrder(Tail(names))

\* C4: a run without stop that reports its output saved has written the
\* output of the run without pause: pauses and resumes change no record a
\* worker reads and no line it writes.
C4_PauseChangesNothing ==
    (Returned /\ ~stop_event /\ LastEvent.is_complete /\ LastEvent.message = "saved") =>
        output_file = [exists |-> TRUE, lines |-> MergeInNameOrder(SortedSeq(Range(temp_files)))]

\* such a run of two chunks in which a worker waited in the pause loop
C4_Witness ==
    /\ pc = "returned"
    /\ ~stop_event
    /\ paused_seen
    /\ LastEvent.message = "saved"
    /\ Len(chunks) = 2
    /\ Len(output_file.lines) >= 2

\* C5: with no stop and a task that raised, the run merges nothing, leaves the
\* output file as it was, deletes the temp files the successful tasks
\* returned and reports one terminal error event.
C5_WorkerFailureAborts ==
    /\ (pc = "finally" /\ ~stop_event /\ \E c \in DOMAIN task : task[c].state = "failed") =>
          \A c \in DOMAIN task : task[c].state = "ok" => ~tmp[c].exists
    /\ (Returned /\ ~stop_event /\ \E c \in DOMAIN task : task[c].state = "failed") =>
          /\ final_message = "none"
          /\ merge_fault = "none"
          /\ output_file = output_at_start
          /\ Cardinality(TerminalEvents) = 1
          /\ LastEvent.status = "error"
          /\ LastEvent.message = "worker_failed"
          /\ NoTempLeft

\* a failed task beside a task that had returned its temp file
C5_Witness ==
    /\ pc = "returned"
    /\ ~stop_event
    /\ \E c \in DOMAIN task : task[c].state = "failed"
    /\ \E c \in DOMAIN task : task[c].state = "ok"

\* C6: the output file of a run without stop that reaches complete holds no
\* line twice.
C6_OutputLinesUnique ==
    (Returned /\ ~stop_event /\ LastEvent.is_complete /\ LastEvent.status = "complete") =>
        \A i, j \in 1..Len(output_file.lines) :
            output_file.lines[i] = output_file.lines[j] => i = j

\* C7: the lines of the output file of a run that reaches complete are in
\* ascending order of their text.
C7_OutputSorted ==
    (Returned /\ LastEvent.is_complete /\ LastEvent.status = "complete") =>
        \A i, j \in 1..Len(output_file.lines) :
            i < j => output_file.lines[i] <= output_file.lines[j]

\* C8: at most one background process is alive; a start() while one is alive
\* creates none.
C8_OneRunAlive == Cardinality(procs) <= 1

\* a second run alive, alone, where a start() is rejected
C8_Witness ==
    /\ runs = MaxRuns
    /\ procs = {runs}
    /\ ENABLED StartRejected
    /\ pc \in PoolPcs

\* C9: every accepted start() leaves pause cleared, stop cleared and
\* save-on-stop false, whatever was called before it.
C9_StartResetsSignals ==
    [][ runs' = runs + 1 =>
          (pause_event' = FALSE /\ stop_event' = FALSE /\ stop_save_flag' = 0) ]_vars

\* a run started over a stale pause and a stale stop(save=true) that was neither
\* paused nor stopped
C9_Witness ==
    /\ stale_at_start = [pause |-> TRUE, stop |-> TRUE, save |-> 1]
    /\ pc = "returned"
    /\ ~paused_seen
    /\ LastEvent.message = "saved"

\* C10: a request with min_ply > max_ply starts nothing: no temp directory, no
\* scan, no task, no temp file.
C10_BadPlyRangeRejected ==
    request.min_ply > request.max_ply =>
        /\ ~temp_dir
        /\ game_offsets = <<>>
        /\ task = <<>>
        /\ \A c \in DOMAIN tmp : ~tmp[c].exists

\* C11: in the standalone script, a command line with min_ply > max_ply is
\* rejected before the scan: the input file is never opened, no offsets are
\* read, no pool is created, and no temp file and no output file is written.
C11_MainRejectsBadPlyRange ==
    (main.pc # "none" /\ main.args.min_ply > main.args.max_ply) =>
        /\ ~disk.opened
        /\ main.offsets = <<>>
        /\ main.pool = "none"
        /\ disk.tmp = <<>>
        /\ disk.output = NoOutput
        /\ main.pc \in {"args", "returned"}

\* main has returned from such a command line over an input file with records
C11_Witness ==
    /\ main.pc = "returned"
    /\ main.args.min_ply > main.args.max_ply
    /\ main.args.workers >= 1
    /\ disk.input.status = "ok"
    /\ Len(disk.input.games) >= 1

\* C12: a run over an input file in which the scan finds no record ends with
\* a terminal complete event of progress 100 and leaves an output file that
\* exists and is empty.
C12_EmptyInputCompletes ==
    (Returned /\ input_fs.status = "ok" /\ ScanOffsets(input_fs.games) = <<>>) =>
        /\ LastEvent.is_complete
        /\ LastEvent.status = "complete"
        /\ LastEvent.progress = 100
        /\ output_file.exists
        /\ output_file.lines = <<>>

RECURSIVE GamesBefore(_, _)
\* the number of records of the first c chunks of the backend
GamesBefore(chs, c) == IF c = 0 THEN 0 ELSE GamesBefore(chs, c - 1) + chs[c].num_games

RECURSIVE Flatten(_)
Flatten(seqs) == IF seqs = <<>> THEN <<>> ELSE Head(seqs) \o Flatten(Tail(seqs))

\* Chunk c of the backend covers the offsets at the positions
\* GamesBefore(c - 1) + 1 .. GamesBefore(c) of the list.
BackendPartition(chs, offsets) ==
    /\ Len(chs) >= 1
    /\ \A c \in DOMAIN chs :
          /\ chs[c].num_games >= 1
          /\ GamesBefore(chs, c) <= Len(offsets)
          /\ chs[c].offset = offsets[GamesBefore(chs, c - 1) + 1]
    /\ GamesBefore(chs, Len(chs)) = Len(offsets)

MainPartition(chs, offsets) ==
    /\ \A c \in DOMAIN chs : chs[c] # <<>>
    /\ Flatten(chs) = offsets

\* C13: for every non-empty ordered offset list (and every worker count >= 1
\* of the script) the chunks of the planner are non-empty, contiguous and in
\* the order of the list, and cover every offset exactly once; a chunk of the
\* backend starts at the offset of its first record and counts its records.
C13_PlannerPartitions ==
    /\ pc = "pool" => BackendPartition(chunks, game_offsets)
    /\ main.pc = "pool" => MainPartition(main.chunks, main.offsets)

\* both planners have split a list unevenly into two chunks or more
C13_Witness ==
    /\ pc = "pool"
    /\ main.pc = "pool"
    /\ Len(chunks) >= 2
    /\ chunks[Len(chunks)].num_games < chunks[1].num_games
    /\ Len(main.chunks) >= 2
    /\ Len(main.chunks[Len(main.chunks)]) < Len(main.chunks[1])

\* C14: with min_elo > 0 the backend worker writes no line for a record in
\* which the white rating or the black rating is below min_elo.
C14_BothRatingsRequired ==
    \A c \in DOMAIN task :
        (/\ pc = "monitor"
         /\ Len(chunks) = 1 /\ Len(input_fs.games) = 1
         /\ task[c].i = 1
         /\ settings.min_elo > 0
         /\ \/ input_fs.games[1].white_elo < settings.min_elo
            \/ input_fs.games[1].black_elo < settings.min_elo)
        => tmp[c].lines = <<>>

\* The number of tasks of the run that have finished, successfully or not.
FinishedTasks == Cardinality({ c \in DOMAIN task : task[c].state \in {"ok", "none", "failed"} })

\* C15: a run that reaches merge has sent a non-terminal event at its start
\* (no chunk counted), a non-terminal event for each completion of a chunk
\* (k chunks counted, for every k up to the number completed, the last of
\* them being the earliest moment merge can start) and the terminal event.
C15_MinimumEvents ==
    (Returned /\ final_message # "none") =>
        /\ ~events[1].is_complete /\ events[1].progress = 0
        /\ \A k \in 1..FinishedTasks :
              \E i \in 1..Len(events) :
                  ~events[i].is_complete /\ events[i].progress = Progress(k, Len(task))
        /\ LastEvent.is_complete

\* What the events of a run carry as progress: where they carry one, it lies
\* in 0..100 and never decreases; before the terminal event it counts tasks
\* that have finished; 100 comes with the terminal complete event only.
ProgressInRange ==
    /\ \A i \in 1..Len(events) : events[i].progress # -1 => events[i].progress \in 0..100
    /\ \A i, j \in 1..Len(events) :
          (i < j /\ events[i].progress # -1 /\ events[j].progress # -1)
              => events[i].progress <= events[j].progress
    /\ \A i \in 1..Len(events) :
          ~events[i].is_complete =>
              events[i].progress \in { Progress(k, Len(task)) : k \in 0..FinishedTasks }
    /\ \A i \in 1..Len(events) :
          events[i].progress = 100 => (events[i].is_complete /\ events[i].status = "complete")

\* The event of a poll of the monitoring loop reports the tasks finished at
\* that poll.
ProgressCountsFinished ==
    (pc = "emit" /\ pc' = "monitor") =>
        /\ events' # <<>>
        /\ events'[Len(events')].progress = Progress(FinishedTasks, Len(task))

\* C16: within one run the progress of successive events is non-decreasing,
\* lies in 0..100, is computed from the number of tasks that have finished
\* (not of those dispatched) and is 100 only on the terminal complete event.
C16_ProgressMonotone == []ProgressInRange /\ [][ProgressCountsFinished]_vars

\* a run of two chunks that reported none, then one chunk finished, then completion
C16_Witness ==
    /\ pc = "returned"
    /\ Len(task) = 2
    /\ Len(events) >= 3
    /\ events[1].progress = 0
    /\ \E i \in 1..Len(events) : events[i].progress = Progress(1, 2)
    /\ LastEvent.progress = 100

\* C17: when the write of the output fails in merge, the run reports a
\* terminal error event and the temp files that were to be merged stay on
\* disk.
C17_MergeFailureKeepsTemp ==
    (pc = "finally" /\ merge_fault # "none") =>
        /\ LastEvent.is_complete
        /\ LastEvent.status = "error"
        /\ \A n \in Range(temp_files) : n # 0 => Exists(n)

\* C18: when run_processing has returned, on whichever path, no task of the
\* pool is queued or running, and the temp directory and every temp file in
\* it, also of the tasks that returned nothing or were cut off, are gone.
C18_ResourcesReleased ==
    Returned =>
        /\ \A c \in DOMAIN task : task[c].state \notin {"queued", "running"}
        /\ NoTempLeft

\* a stopped run has returned: one task had returned None at its stop check
\* after creating its temp file, another was cut off by the pool
C18_Witness ==
    /\ pc = "returned"
    /\ stop_event
    /\ \E c \in DOMAIN task : task[c].state = "none"
    /\ \E c \in DOMAIN task : task[c].state = "killed" /\ task[c].pc # "none"

\* C19: the coordinator never terminates a worker that is running; a task
\* that has started ends by its own return.
C19_CooperativeOnly ==
    \A c \in DOMAIN task : ~(task[c].state = "killed" /\ task[c].pc # "none")

\* C20: a worker that sees stop at a checkpoint hands back the path of its
\* temp file, which holds the lines it wrote before the stop.
C20_StoppedWorkerHandsBack ==
    \A c \in DOMAIN task :
        (task[c].state = "none" /\ pc \in PoolPcs) =>
            /\ tmp[c].exists
            /\ ResultOf(c) = tmp[c].name

\* A worker that checks stop inside the pause wait while stop is set leaves
\* its chunk.
LeavesPauseOnStop ==
    \A c \in DOMAIN task :
        (task[c].state = "running" /\ task[c].pc = "pause_stop" /\ stop_event
         /\ c \in DOMAIN task' /\ task'[c] # task[c])
            => task'[c].state \in {"none", "killed"}

\* C21: once stop is set during a run, the run emits its terminal event and
\* run_processing returns, whatever pause is and whether or not the workers
\* make progress; a worker in the pause wait that re-checks stop leaves.
C21_StopTerminates ==
    /\ stop_event ~> (Returned /\ events # <<>> /\ LastEvent.is_complete)
    /\ [][LeavesPauseOnStop]_vars

\* a stopped run has returned while pause was still set, one of its workers
\* having left from inside the pause wait
C21_Witness ==
    /\ pc = "returned"
    /\ stop_event
    /\ pause_event
    /\ paused_seen
    /\ \E c \in DOMAIN task : task[c].state = "none" /\ task[c].i >= 1

\* What a worker holds at any moment: its temp file has the lines of the
\* records it has decoded, no more and no less, and its file position is
\* that of the next record of its chunk; while pause has stayed set since the
\* worker was at its first record, it has decoded at most one record.
DecodesAtMostOne ==
    \A c \in DOMAIN task :
        task[c].state \in {"running", "ok"} =>
            /\ tmp[c].exists
            /\ tmp[c].lines = ChunkLines(input_fs.games, chunks[c].offset, task[c].i, settings)
            /\ task[c].pos = chunks[c].offset + task[c].i
            /\ pause_event => task[c].i <= 1

\* A worker in the pause wait, while pause stays set and stop is not set,
\* stays there and changes neither its temp file nor its position.
BlockedWhilePaused ==
    \A c \in DOMAIN task :
        (/\ task[c].state = "running"
         /\ task[c].pc \in {"pause_wait", "pause_stop"}
         /\ pause_event /\ pause_event' /\ ~stop_event)
        => /\ task'[c].state = "running"
           /\ task'[c].pc \in {"pause_wait", "pause_stop"}
           /\ task'[c].i = task[c].i
           /\ task'[c].pos = task[c].pos
           /\ tmp'[c] = tmp[c]

\* C22: while pause stays set and stop is not set, a worker decodes at most
\* one further record and then blocks; blocked, it writes nothing and loses
\* nothing; once pause is cleared it goes on with the next record of its
\* chunk at the position where it stopped.
C22_PauseBlocksWorkers == []DecodesAtMostOne /\ [][BlockedWhilePaused]_vars

\* after a resume, a worker that had waited in the pause loop has finished
\* its chunk of two records or more with every line
C22_Witness ==
    /\ ~pause_event
    /\ paused_seen
    /\ \E c \in DOMAIN task :
          /\ task[c].state = "ok"
          /\ task[c].i >= 2
          /\ Len(tmp[c].lines) >= 2

\* The coordinator is on the stop path with the results collected (line 225).
StopCollected ==
    \/ pc \in {"save_flag", "discard"}
    \/ pc = "merge" /\ final_message = "partial_saved"

\* The collected list names files of tasks that returned them, and no other.
CollectedFromReturned ==
    StopCollected =>
        /\ \A k \in DOMAIN temp_files :
              \/ temp_files[k] = 0
              \/ \E c \in DOMAIN task : task[c].state = "ok" /\ tmp[c].name = temp_files[k]
        /\ \A c \in DOMAIN task :
              task[c].state # "ok" => ~(tmp[c].exists /\ tmp[c].name \in Range(temp_files))

\* The merge of a saved stop writes lines of returned files only.
StopMergeFromReturned ==
    (pc = "merge" /\ final_message = "partial_saved" /\ output_file' # output_file) =>
        Range(output_file'.lines) \subseteq
            UNION { Range(tmp[c].lines) : c \in { d \in DOMAIN task : task[d].state = "ok" } }

\* C23: on the stop path the coordinator takes results only from tasks that
\* are ready and successful; a task that has not returned is not waited for,
\* its result is not read and its file is not merged.
C23_StopCollectsReadyOnly == []CollectedFromReturned /\ [][StopMergeFromReturned]_vars

\* a saved stop has collected the file of a finished task while another task,
\* cut off with lines in its temp file, is left out
C23_Witness ==
    /\ pc = "merge"
    /\ final_message = "partial_saved"
    /\ \E c \in DOMAIN task : task[c].state = "ok" /\ tmp[c].lines # <<>>
    /\ \E c \in DOMAIN task : task[c].state = "killed" /\ tmp[c].exists /\ tmp[c].lines # <<>>

\* The merge of a run whose tasks all returned writes, as a set, the lines of
\* all their temp files.
MergeWritesUnion ==
    (/\ pc = "merge" /\ final_message = "saved" /\ pc' = "finally"
     /\ events'[Len(events')].status = "complete") =>
        /\ output_file'.exists
        /\ Range(output_file'.lines) =
              UNION { Range(tmp[c].lines) : c \in { d \in DOMAIN tmp : tmp[d].exists } }
        /\ \A c \in DOMAIN task : task[c].state = "ok" /\ tmp[c].exists

\* C24: the set of lines of the output of a run that completes without stop
\* is the union of the sets of lines of the temp files its tasks returned.
C24_OutputIsUnionOfTempFiles == [][MergeWritesUnion]_vars

\* a run of two chunks has completed without stop, both temp files holding lines
C24_Witness ==
    /\ pc = "returned"
    /\ ~stop_event
    /\ LastEvent.message = "saved"
    /\ Len(chunks) >= 2
    /\ Len(output_file.lines) >= 3

\* C25: when every worker of the script has finished and the output is
\* written, its lines are strictly ascending and their set is the union of
\* the lines of the temp files, in whatever order the chunks finished; when
\* main ends, also by an exception of a worker or of the merge, no temp file
\* is left.
C25_MainMergeSortedUnique ==
    /\ (main.pc = "finally" /\ ~main.raised) =>
          /\ disk.output.exists
          /\ \A i, j \in 1..Len(disk.output.lines) :
                i < j => disk.output.lines[i] < disk.output.lines[j]
          /\ Range(disk.output.lines) =
                UNION { disk.tmp[i].lines : i \in { j \in DOMAIN disk.tmp : disk.tmp[j].exists } }
          /\ \A i \in DOMAIN main.chunks : disk.tmp[i].exists
    /\ main.pc \in {"returned", "crashed"} =>
          \A i \in DOMAIN disk.tmp : ~disk.tmp[i].exists

\* the output is written from two temp files that share a line and hold
\* several lines each
C25_Witness ==
    /\ main.pc = "finally"
    /\ ~main.raised
    /\ Len(main.chunks) >= 2
    /\ disk.tmp[1].lines \cap disk.tmp[2].lines # {}
    /\ Cardinality(disk.tmp[1].lines) >= 3
    /\ Len(disk.output.lines) >= 3

\* The only record of the input passes the ECO and rating filters of the script.
KeptRecord ==
    LET game == disk.input.games[1]
    IN  /\ (main.args.eco = <<>> \/ StartsWith(game.eco, main.args.eco))
        /\ (main.args.elo = 0 \/
              (game.white_elo >= main.args.elo /\ game.black_elo >= main.args.elo))

\* C26: for a kept record of n plies the worker of the script writes exactly
\* the lines of the plies p with min_ply <= p <= min(max_ply, n), one line
\* for each, all with the tag of the record; with min_ply = max_ply it writes
\* at most one line.
C26_PlyWindow ==
    (Len(disk.input.games) = 1 /\ 1 \in main.done /\ main.pc = "workers" /\ KeptRecord) =>
        LET game  == disk.input.games[1]
            lines == disk.tmp[1].lines
            last  == IF main.args.max_ply <= game.ply THEN main.args.max_ply ELSE game.ply
        IN  /\ lines = { game.line * 10 + p : p \in main.args.min_ply..last }
            /\ Cardinality(lines) = Cardinality(main.args.min_ply..last)
            /\ \A l \in lines : l \div 10 = game.line
            /\ main.args.min_ply = main.args.max_ply => Cardinality(lines) <= 1

\* a rated record kept by the filter and shorter than max_ply, with a window
\* that starts after its first ply and ends with its last
C26_Witness ==
    /\ Len(disk.input.games) = 1
    /\ 1 \in main.done
    /\ main.pc = "workers"
    /\ KeptRecord
    /\ main.args.elo > 0
    /\ disk.input.games[1].ply < main.args.max_ply
    /\ main.args.min_ply >= 2
    /\ Cardinality(disk.tmp[1].lines) >= 1

\* C27: when the stop calls made during a run all carry the same save
\* argument, the stop path is taken only after such a call, reads the flag
\* that call wrote, and takes the branch of the argument: save=true merges
\* the collected temp files, save=false cleans up and reports stopped.
C27_StopBranchMatchesArgument ==
    /\ pc \in {"terminate", "save_flag", "discard"} => run_stops # {}
    /\ (pc = "save_flag" /\ run_stops = {TRUE}) => stop_save_flag = 1
    /\ (pc = "save_flag" /\ run_stops = {FALSE}) => stop_save_flag = 0
    /\ run_stops = {TRUE} =>
          /\ pc # "discard"
          /\ \A i \in 1..Len(events) : events[i].status # "stopped"
    /\ run_stops = {FALSE} =>
          /\ final_message # "partial_saved"
          /\ (pc = "merge" => final_message = "saved")

\* a second run whose only stop calls asked to save was stopped in the middle
\* of its work and has merged the temp files it had
C27_Witness ==
    /\ runs = MaxRuns
    /\ pc = "returned"
    /\ run_stops = {TRUE}
    /\ TRUE \in mid_stops
    /\ final_message = "partial_saved"

\* the steps of a start call that finds the process of the run alive
RejectedStartStep ==
    /\ handler' # handler
    /\ handler = "start_rejected" \/ handler' = "start_rejected"

\* C28: a start call rejected because a run is active changes nothing of that
\* run: pause_event, stop_event and stop_save_flag keep their values, no event
\* leaves progress_queue, and the background process and its settings stay
\* the ones of the run.
C28_RejectedStartChangesNothing ==
    [][RejectedStartStep =>
          /\ pause_event' = pause_event
          /\ stop_event' = stop_event
          /\ stop_save_flag' = stop_save_flag
          /\ progress_queue' = progress_queue
          /\ background_process' = background_process
          /\ procs' = procs
          /\ runs' = runs
          /\ settings' = settings
          /\ pc' = pc
          /\ task' = task]_vars

\* a start call is being rejected while the run is paused, a stop that asked
\* to save is not yet seen by the coordinator, and events wait in the queue
C28_Witness ==
    /\ handler = "start_rejected"
    /\ background_process = "alive"
    /\ pc \in PoolPcs
    /\ pause_event
    /\ stop_event
    /\ stop_save_flag = 1
    /\ progress_queue # <<>>

====
